---- MODULE Spec2Model ----
(***************************************************************************)
(* Model of v5.py: a Streamlit script that, once per script run, fetches   *)
(* a price frame for every symbol of the watch list, classifies the last   *)
(* two bars (EMA crossover, then Bollinger breakout) and sends a Telegram   *)
(* message when a triggering signal is new for the symbol, remembering the *)
(* last alert key per symbol in st.session_state.last_alerts.              *)
(*                                                                         *)
(* Message texts are written in ASCII:                                     *)
(*   "trend stable" (v5.py:68), "strong buy (EMA+MACD)" (:75),             *)
(*   "golden cross" (:77), "death cross" (:80),                            *)
(*   "touching upper band (overbought)" (:84),                             *)
(*   "touching lower band (oversold)" (:86).                               *)
(* alert_level keeps the source's values "success", "warning", "error"     *)
(* (the levels the dashboard shows as info, warning and critical).         *)
(***************************************************************************)
EXTENDS Integers, Sequences, FiniteSets, TLC

VARIABLES
    pc,           \* position of the script run
    secrets,      \* TRUE when st.secrets holds telegram.bot_token and chat_id
    diag,         \* TRUE once st.error has shown the configuration diagnostic
    in_session,   \* 'last_alerts' in st.session_state
    last_alerts,  \* st.session_state.last_alerts: a dict symbol -> alert key
    idx,          \* index of the for loop over symbols (1-based)
    df_raw,       \* value returned by fetch_data for symbols[idx]
    info,         \* second value returned by analyze_strategy (None or a dict)
    has_trigger,  \* analyze_strategy's local has_trigger when it returned
    outbox,       \* Telegram requests made by the current analyze_strategy call
    before,       \* last_alerts as it was when the current call was entered
    evaluated,    \* symbols analyze_strategy was called for in this script run
    failed,       \* symbols whose fetch_data returned None in this script run
    prevTrig,     \* per symbol: final message of its previous evaluation when
                  \* that evaluation had has_trigger, else None
    lastSent,     \* per symbol: message of the last notification requested
                  \* for it, else None
    undelivered,  \* symbols whose last notification request failed (recorded
                  \* by SpecDelivery only)
    cycleStart,   \* last_alerts as the first evaluation of this script run
                  \* found it (recorded by SpecOrder only)
    peer          \* a second browser session served by the same process: its
                  \* own st.session_state and its position in the symbol loop
                  \* (acts in SpecSessions only)

vars == <<pc, secrets, diag, in_session, last_alerts, idx, df_raw, info,
          has_trigger, outbox, before, evaluated, failed, prevTrig, lastSent,
          undelivered, cycleStart, peer>>

----------------------------------------------------------------------------
(* Bounds of the model. *)

\* EMA_F takes the values 1..MaxFast, EMA_S the value MaxFast - 1
MaxFast == 3
\* MACD_Hist takes the values -MaxHist..MaxHist
MaxHist == 1
\* the 20-bar standard deviation takes the values 0..MaxStd
MaxStd == 1
\* Close takes the values 1..MaxClose, BB_Mid the value MaxClose - 1
MaxClose == 3
\* the price of a constant series takes the values 1..MaxPrice
MaxPrice == 20
\* a constant series has MinBars .. MinBars+MaxExtra bars
MaxExtra == 1

----------------------------------------------------------------------------
(* Program constants. *)

\* len(df) < 35
MinBars == 35
\* BB_Mid +/- (std * 2)
BandWidth == 2
\* rolling(window=20)
BBWindow == 20
\* ewm(span=12), ewm(span=26), ewm(span=9) of MACD and its signal line
MacdFastSpan == 12
MacdSlowSpan == 26
MacdSignalSpan == 9
\* ewm(span=9), ewm(span=21) of EMA_F and EMA_S
EmaFastSpan == 9
EmaSlowSpan == 21
\* Python's None where a string is expected (dict.get, message histories)
None == "None"
\* Python's None where a frame or the info dict is expected
NoneObj == [none |-> TRUE]

symbols == <<"AAPL", "NVDA">>

Symbol == {symbols[i] : i \in 1..Len(symbols)}

MsgStable == "trend stable"
MsgStrongBuy == "strong buy (EMA+MACD)"
MsgGolden == "golden cross"
MsgDeath == "death cross"
MsgUpper == "touching upper band (overbought)"
MsgLower == "touching lower band (oversold)"

Messages == {MsgStable, MsgStrongBuy, MsgGolden, MsgDeath, MsgUpper, MsgLower}

----------------------------------------------------------------------------
(* Frames.  A frame is the DataFrame fetch_data returns, described by its   *)
(* number of rows and by the values that lines 46-60 attach to its last two *)
(* rows (prev = iloc[-2], last = iloc[-1]).                                 *)

\* both sides of the len(df) < 35 test
Rows == {MinBars - 1, MinBars}

PrevBar == [EMA_F : 1..MaxFast, EMA_S : {MaxFast - 1}]

LastBar == [EMA_F : 1..MaxFast, EMA_S : {MaxFast - 1},
            MACD_Hist : (0 - MaxHist)..MaxHist,
            Close : 1..MaxClose, BB_Mid : {MaxClose - 1}, std : 0..MaxStd]

Frames == [len : Rows, prev : PrevBar, last : LastBar]

\* df['BB_Upper'] = df['BB_Mid'] + (std * 2)
BB_Upper(bar) == bar.BB_Mid + (bar.std * BandWidth)

\* df['BB_Lower'] = df['BB_Mid'] - (std * 2)
BB_Lower(bar) == bar.BB_Mid - (bar.std * BandWidth)

----------------------------------------------------------------------------
(* The indicator columns of lines 46-60, computed from the Close column in *)
(* exact arithmetic.  A number is a fraction [n, d] in lowest terms with   *)
(* d > 0.                                                                  *)

RECURSIVE GCD(_, _)
GCD(a, b) == IF b = 0 THEN a ELSE GCD(b, a % b)

Abs(a) == IF a < 0 THEN 0 - a ELSE a

Frac(n, d) ==
    LET g == GCD(Abs(n), d)
    IN  IF n = 0 THEN [n |-> 0, d |-> 1] ELSE [n |-> n \div g, d |-> d \div g]

FAdd(x, y) == Frac(x.n * y.d + y.n * x.d, x.d * y.d)

FSub(x, y) == Frac(x.n * y.d - y.n * x.d, x.d * y.d)

FMul(x, y) == Frac(x.n * y.n, x.d * y.d)

\* the square root of a fraction whose numerator and denominator are squares
FSqrt(x) ==
    [n |-> CHOOSE r \in 0..x.n : r * r = x.n, d |-> CHOOSE r \in 1..x.d : r * r = x.d]

\* variant: the previous average is not decayed
EwmStep_NoDecay(weighted, cur, span) ==
    FAdd(weighted, FMul(Frac(2, span + 1), cur))

\* one step of ewm(span, adjust=False).mean(): alpha = 2 / (span + 1),
\* weighted = (1 - alpha) * weighted + alpha * cur
EwmStep(weighted, cur, span) ==
    FAdd(FMul(Frac(span - 1, span + 1), weighted), FMul(Frac(2, span + 1), cur))

RECURSIVE EwmFrom(_, _, _)
EwmFrom(vals, span, acc) ==
    IF Len(acc) = Len(vals)
    THEN acc
    ELSE EwmFrom(vals, span,
                 Append(acc, EwmStep(acc[Len(acc)], vals[Len(acc) + 1], span)))

\* series.ewm(span=span, adjust=False).mean(): seeded with the first value
Ewm(vals, span) == EwmFrom(vals, span, <<vals[1]>>)

RECURSIVE FSum(_, _, _)
FSum(vals, from, to) ==
    IF from > to THEN Frac(0, 1) ELSE FAdd(vals[from], FSum(vals, from + 1, to))

\* rolling(window=20).mean() at the last row
RollingMean(vals) ==
    FMul(FSum(vals, Len(vals) - BBWindow + 1, Len(vals)), Frac(1, BBWindow))

\* rolling(window=20).std() at the last row (sample standard deviation)
RollingStd(vals) ==
    LET m == RollingMean(vals)
        sq == [i \in 1..Len(vals) |-> FMul(FSub(vals[i], m), FSub(vals[i], m))]
    IN  FSqrt(FMul(FSum(sq, Len(vals) - BBWindow + 1, Len(vals)),
                   Frac(1, BBWindow - 1)))

\* lines 46-64 on a Close column: the frame with the values of its last two
\* rows.  The values are written as integers over their common denominator k;
\* lines 73-86 and 101-103 only compare two of them, or one with 0.
Enrich(close) ==
    LET vals == [i \in 1..Len(close) |-> Frac(close[i], 1)]
        len == Len(vals)
        exp1 == Ewm(vals, MacdFastSpan)
        exp2 == Ewm(vals, MacdSlowSpan)
        macd == [i \in 1..len |-> FSub(exp1[i], exp2[i])]
        signal == Ewm(macd, MacdSignalSpan)
        hist == FSub(macd[len], signal[len])
        ema_f == Ewm(vals, EmaFastSpan)
        ema_s == Ewm(vals, EmaSlowSpan)
        mid == RollingMean(vals)
        std == RollingStd(vals)
        k == hist.d * ema_f[len].d * ema_s[len].d * ema_f[len - 1].d
                * ema_s[len - 1].d * mid.d * std.d
        Scaled(x) == x.n * (k \div x.d)
    IN  [len |-> len,
         prev |-> [EMA_F |-> Scaled(ema_f[len - 1]), EMA_S |-> Scaled(ema_s[len - 1])],
         last |-> [EMA_F |-> Scaled(ema_f[len]), EMA_S |-> Scaled(ema_s[len]),
                   MACD_Hist |-> Scaled(hist), Close |-> Scaled(vals[len]),
                   BB_Mid |-> Scaled(mid), std |-> Scaled(std)]]

\* a Close column of n bars at the price c
ConstantSeries(c, n) == [i \in 1..n |-> c]

----------------------------------------------------------------------------
(* send_telegram_msg: the POST succeeds or fails (netOK); an exception is    *)
(* caught by the bare except and nothing is raised to the caller.           *)

\* variant: no try/except, a failed POST raises to the caller
send_telegram_msg_Raises(message, netOK) ==
    [request |-> [text |-> message, delivered |-> netOK], raised |-> ~netOK]

send_telegram_msg(message, netOK) ==
    [request |-> [text |-> message, delivered |-> netOK], raised |-> FALSE]

----------------------------------------------------------------------------
(* analyze_strategy, in the order of the source. *)

\* variant: the length test is off by one
NoResult_OffByOne(df) == df = NoneObj \/ df.len < MinBars - 1

\* if df is None or len(df) < 35: return None, None
NoResult(df) == df = NoneObj \/ df.len < MinBars

\* variant: a zero histogram counts as positive
CrossSignal_ZeroIsPositive(df) ==
    IF df.prev.EMA_F <= df.prev.EMA_S /\ df.last.EMA_F > df.last.EMA_S
    THEN IF df.last.MACD_Hist >= 0
         THEN [msg |-> MsgStrongBuy, alert_level |-> "error", has_trigger |-> TRUE]
         ELSE [msg |-> MsgGolden, alert_level |-> "warning", has_trigger |-> TRUE]
    ELSE IF df.prev.EMA_F >= df.prev.EMA_S /\ df.last.EMA_F < df.last.EMA_S
         THEN [msg |-> MsgDeath, alert_level |-> "error", has_trigger |-> TRUE]
         ELSE [msg |-> MsgStable, alert_level |-> "success", has_trigger |-> FALSE]

\* lines 68-80: defaults, then the EMA crossover chain
CrossSignal(df) ==
    IF df.prev.EMA_F <= df.prev.EMA_S /\ df.last.EMA_F > df.last.EMA_S
    THEN IF df.last.MACD_Hist > 0
         THEN [msg |-> MsgStrongBuy, alert_level |-> "error", has_trigger |-> TRUE]
         ELSE [msg |-> MsgGolden, alert_level |-> "warning", has_trigger |-> TRUE]
    ELSE IF df.prev.EMA_F >= df.prev.EMA_S /\ df.last.EMA_F < df.last.EMA_S
         THEN [msg |-> MsgDeath, alert_level |-> "error", has_trigger |-> TRUE]
         ELSE [msg |-> MsgStable, alert_level |-> "success", has_trigger |-> FALSE]

\* variant: a breakout also sets has_trigger
BollingerOverride_Triggers(sig, df) ==
    IF df.last.Close > BB_Upper(df.last)
    THEN [msg |-> MsgUpper, alert_level |-> "warning", has_trigger |-> TRUE]
    ELSE IF df.last.Close < BB_Lower(df.last)
         THEN [msg |-> MsgLower, alert_level |-> "warning", has_trigger |-> TRUE]
         ELSE sig

\* variant: a breakout does not override a crossover
BollingerOverride_KeepsCross(sig, df) ==
    IF sig.has_trigger
    THEN sig
    ELSE IF df.last.Close > BB_Upper(df.last)
         THEN [sig EXCEPT !.msg = MsgUpper, !.alert_level = "warning"]
         ELSE IF df.last.Close < BB_Lower(df.last)
              THEN [sig EXCEPT !.msg = MsgLower, !.alert_level = "warning"]
              ELSE sig

\* variant: a breakout overrides msg and leaves alert_level
BollingerOverride_KeepsLevel(sig, df) ==
    IF df.last.Close > BB_Upper(df.last)
    THEN [sig EXCEPT !.msg = MsgUpper]
    ELSE IF df.last.Close < BB_Lower(df.last)
         THEN [sig EXCEPT !.msg = MsgLower]
         ELSE sig

\* lines 83-86: the Bollinger breakout overrides msg and alert_level
BollingerOverride(sig, df) ==
    IF df.last.Close > BB_Upper(df.last)
    THEN [sig EXCEPT !.msg = MsgUpper, !.alert_level = "warning"]
    ELSE IF df.last.Close < BB_Lower(df.last)
         THEN [sig EXCEPT !.msg = MsgLower, !.alert_level = "warning"]
         ELSE sig

\* variant: the key leaves the message out
alert_key_SymbolOnly(sym, msg) == sym

\* alert_key = f"{sym}_{msg}"
alert_key(sym, msg) == sym \o "_" \o msg

\* st.session_state.last_alerts.get(sym)
Get(alerts, sym) == IF sym \in DOMAIN alerts THEN alerts[sym] ELSE None

\* variant: the key is not stored
Put_Dropped(alerts, sym, key) == alerts

\* variant: the dict is replaced by one holding this entry only
Put_ReplacesDict(alerts, sym, key) == [s \in {sym} |-> key]

\* st.session_state.last_alerts[sym] = alert_key
Put(alerts, sym, key) ==
    [s \in (DOMAIN alerts) \cup {sym} |-> IF s = sym THEN key ELSE alerts[s]]

\* variant: the stored key is not consulted
ShouldNotify_IgnoresState(sig, alerts, sym) == sig.has_trigger

\* if has_trigger and st.session_state.last_alerts.get(sym) != alert_key
ShouldNotify(sig, alerts, sym) ==
    sig.has_trigger /\ Get(alerts, sym) # alert_key(sym, sig.msg)

\* tg_text: symbol, signal, price and MACD direction; the volume ratio of
\* line 95 is formatted into the same text and decides nothing
tg_text(sym, sig, df) ==
    [sym |-> sym, msg |-> sig.msg, price |-> df.last.Close,
     macd |-> IF df.last.MACD_Hist > 0 THEN "bull" ELSE "bear"]

\* variant: the band test is not strict
Info_BandNotStrict(sig, df) ==
    [price |-> df.last.Close,
     bb_pos |-> IF BB_Lower(df.last) <= df.last.Close /\ df.last.Close <= BB_Upper(df.last)
                THEN "inside" ELSE "outside",
     macd_status |-> IF df.last.MACD_Hist > 0 THEN "bullish" ELSE "bearish",
     trend |-> IF df.last.EMA_F > df.last.EMA_S THEN "bullish" ELSE "bearish",
     msg |-> sig.msg, alert_level |-> sig.alert_level]

\* lines 99-105: the info dict
Info(sig, df) ==
    [price |-> df.last.Close,
     bb_pos |-> IF BB_Lower(df.last) < df.last.Close /\ df.last.Close < BB_Upper(df.last)
                THEN "inside" ELSE "outside",
     macd_status |-> IF df.last.MACD_Hist > 0 THEN "bullish" ELSE "bearish",
     trend |-> IF df.last.EMA_F > df.last.EMA_S THEN "bullish" ELSE "bearish",
     msg |-> sig.msg, alert_level |-> sig.alert_level]

\* variant: an evaluation without a trigger forgets the symbol's entry
analyze_strategy_ForgetsWhenQuiet(df, sym, alerts, netOK) ==
    IF NoResult(df)
    THEN [info |-> NoneObj, has_trigger |-> FALSE, alerts |-> alerts,
          outbox |-> <<>>, raised |-> FALSE]
    ELSE LET sig == BollingerOverride(CrossSignal(df), df)
         IN  IF ShouldNotify(sig, alerts, sym)
             THEN LET r == send_telegram_msg(tg_text(sym, sig, df), netOK)
                  IN  [info |-> Info(sig, df), has_trigger |-> sig.has_trigger,
                       alerts |-> Put(alerts, sym, alert_key(sym, sig.msg)),
                       outbox |-> <<r.request>>, raised |-> FALSE]
             ELSE [info |-> Info(sig, df), has_trigger |-> sig.has_trigger,
                   alerts |-> IF sig.has_trigger
                              THEN alerts
                              ELSE [s \in (DOMAIN alerts) \ {sym} |-> alerts[s]],
                   outbox |-> <<>>, raised |-> FALSE]

\* the whole call: what it returns and what it leaves behind
analyze_strategy(df, sym, alerts, netOK) ==
    IF NoResult(df)
    THEN [info |-> NoneObj, has_trigger |-> FALSE, alerts |-> alerts,
          outbox |-> <<>>, raised |-> FALSE]
    ELSE LET sig == BollingerOverride(CrossSignal(df), df)
         IN  IF ShouldNotify(sig, alerts, sym)
             THEN LET r == send_telegram_msg(tg_text(sym, sig, df), netOK)
                  IN  IF r.raised
                      THEN [info |-> NoneObj, has_trigger |-> sig.has_trigger,
                            alerts |-> alerts, outbox |-> <<r.request>>,
                            raised |-> TRUE]
                      ELSE [info |-> Info(sig, df), has_trigger |-> sig.has_trigger,
                            alerts |-> Put(alerts, sym, alert_key(sym, sig.msg)),
                            outbox |-> <<r.request>>, raised |-> FALSE]
             ELSE [info |-> Info(sig, df), has_trigger |-> sig.has_trigger,
                   alerts |-> alerts, outbox |-> <<>>, raised |-> FALSE]

----------------------------------------------------------------------------
(* The script run. *)

\* what yf.download does for one request: it raises, returns an empty frame,
\* or returns a frame
Responses == Frames \cup {[error |-> TRUE], [empty |-> TRUE]}

\* variant: no try/except, an exception of yf.download reaches the loop
fetch_data_Raises(resp) ==
    IF resp \in Frames
    THEN [value |-> resp, raised |-> FALSE]
    ELSE [value |-> NoneObj, raised |-> resp = [error |-> TRUE]]

\* fetch_data: None on an exception or on empty data, nothing is raised
fetch_data(resp) ==
    IF resp \in Frames
    THEN [value |-> resp, raised |-> FALSE]
    ELSE [value |-> NoneObj, raised |-> FALSE]

NoHistory == [s \in Symbol |-> None]

\* a browser session that has not run the script yet
NoPeer == [in_session |-> FALSE, last_alerts |-> <<>>, idx |-> 0]

Init ==
    /\ pc = "secrets"
    /\ secrets \in BOOLEAN
    /\ diag = FALSE
    /\ in_session = FALSE
    /\ last_alerts = <<>>
    /\ idx = 1
    /\ df_raw = NoneObj
    /\ info = NoneObj
    /\ has_trigger = FALSE
    /\ outbox = <<>>
    /\ before = <<>>
    /\ evaluated = <<>>
    /\ failed = {}
    /\ prevTrig = NoHistory
    /\ lastSent = NoHistory
    /\ undelivered = {}
    /\ cycleStart = <<>>
    /\ peer = NoPeer

\* lines 10-12: both keys are read
ReadSecrets ==
    /\ pc = "secrets"
    /\ secrets
    /\ pc' = "session"
    /\ UNCHANGED <<secrets, diag, in_session, last_alerts, idx, df_raw, info,
                   has_trigger, outbox, before, evaluated, failed, prevTrig,
                   lastSent, undelivered, cycleStart, peer>>

\* variant: st.error without st.stop
StopOnMissingSecrets_Continues ==
    /\ pc = "secrets"
    /\ ~secrets
    /\ diag' = TRUE
    /\ pc' = "session"
    /\ UNCHANGED <<secrets, in_session, last_alerts, idx, df_raw, info,
                   has_trigger, outbox, before, evaluated, failed, prevTrig,
                   lastSent, undelivered, cycleStart, peer>>

\* lines 13-15: KeyError, st.error, st.stop
StopOnMissingSecrets ==
    /\ pc = "secrets"
    /\ ~secrets
    /\ diag' = TRUE
    /\ pc' = "halted"
    /\ UNCHANGED <<secrets, in_session, last_alerts, idx, df_raw, info,
                   has_trigger, outbox, before, evaluated, failed, prevTrig,
                   lastSent, undelivered, cycleStart, peer>>

\* variant: the dict is created in every script run
InitSession_AlwaysResets ==
    /\ pc = "session"
    /\ last_alerts' = <<>>
    /\ in_session' = TRUE
    /\ idx' = 1
    /\ evaluated' = <<>>
    /\ failed' = {}
    /\ pc' = "fetch"
    /\ UNCHANGED <<secrets, diag, df_raw, info, has_trigger, outbox, before,
                   prevTrig, lastSent, undelivered, cycleStart, peer>>

\* lines 28-29, then the script reaches the for loop of line 121
InitSession ==
    /\ pc = "session"
    /\ last_alerts' = IF ~in_session THEN <<>> ELSE last_alerts
    /\ in_session' = TRUE
    /\ idx' = 1
    /\ evaluated' = <<>>
    /\ failed' = {}
    /\ pc' = "fetch"
    /\ UNCHANGED <<secrets, diag, df_raw, info, has_trigger, outbox, before,
                   prevTrig, lastSent, undelivered, cycleStart, peer>>

\* line 122: df_raw = fetch_data(sym, interval)
FetchData ==
    /\ pc = "fetch"
    /\ \E resp \in Responses :
         LET r == fetch_data(resp)
         IN  /\ df_raw' = r.value
             /\ failed' = IF r.value = NoneObj
                           THEN failed \cup {symbols[idx]} ELSE failed
             /\ pc' = IF r.raised THEN "crashed" ELSE "analyze"
    /\ UNCHANGED <<secrets, diag, in_session, last_alerts, idx, info,
                   has_trigger, outbox, before, evaluated, prevTrig, lastSent,
                   undelivered, cycleStart, peer>>

\* line 123: df, info = analyze_strategy(df_raw, sym)
AnalyzeStrategy ==
    /\ pc = "analyze"
    /\ \E netOK \in BOOLEAN :
         LET sym == symbols[idx]
             r == analyze_strategy(df_raw, sym, last_alerts, netOK)
         IN  /\ before' = last_alerts
             /\ last_alerts' = r.alerts
             /\ info' = r.info
             /\ has_trigger' = r.has_trigger
             /\ outbox' = r.outbox
             /\ evaluated' = Append(evaluated, sym)
             /\ pc' = IF r.raised THEN "crashed" ELSE "render"
    /\ UNCHANGED <<secrets, diag, in_session, idx, df_raw, failed, prevTrig,
                   lastSent, undelivered, cycleStart, peer>>

\* variant: the loop is left after the first symbol
EndIteration_Break ==
    /\ pc = "render"
    /\ lastSent' = IF outbox # <<>>
                   THEN [lastSent EXCEPT ![symbols[idx]] = outbox[1].text.msg]
                   ELSE lastSent
    /\ df_raw' = NoneObj
    /\ info' = NoneObj
    /\ has_trigger' = FALSE
    /\ outbox' = <<>>
    /\ before' = <<>>
    /\ idx' = idx
    /\ pc' = "sleep"
    /\ UNCHANGED <<secrets, diag, in_session, last_alerts, evaluated, failed,
                   cycleStart, peer>>

\* lines 124-133: cache and show the result, go on to the next symbol
EndIteration ==
    /\ pc = "render"
    /\ lastSent' = IF outbox # <<>>
                   THEN [lastSent EXCEPT ![symbols[idx]] = outbox[1].text.msg]
                   ELSE lastSent
    /\ df_raw' = NoneObj
    /\ info' = NoneObj
    /\ has_trigger' = FALSE
    /\ outbox' = <<>>
    /\ before' = <<>>
    /\ IF idx < Len(symbols)
       THEN idx' = idx + 1 /\ pc' = "fetch"
       ELSE idx' = idx /\ pc' = "sleep"
    /\ UNCHANGED <<secrets, diag, in_session, last_alerts, evaluated, failed,
                   cycleStart, peer>>

\* the end of an iteration, remembering whether the evaluation triggered
Render ==
    /\ EndIteration
    /\ prevTrig' = [prevTrig EXCEPT ![symbols[idx]] =
                        IF has_trigger THEN info.msg ELSE None]
    /\ UNCHANGED undelivered

\* the end of an iteration, remembering whether the request went through
RenderDelivery ==
    /\ EndIteration
    /\ undelivered' = IF outbox = <<>>
                      THEN undelivered
                      ELSE IF outbox[1].delivered
                           THEN undelivered \ {symbols[idx]}
                           ELSE undelivered \cup {symbols[idx]}
    /\ UNCHANGED prevTrig

\* lines 160-161: time.sleep(60); st.rerun() runs the script again from the top
Rerun ==
    /\ pc = "sleep"
    /\ pc' = "secrets"
    /\ UNCHANGED <<secrets, diag, in_session, last_alerts, idx, df_raw, info,
                   has_trigger, outbox, before, evaluated, failed, prevTrig,
                   lastSent, undelivered, cycleStart, peer>>

Next ==
    \/ ReadSecrets
    \/ StopOnMissingSecrets
    \/ InitSession
    \/ FetchData
    \/ AnalyzeStrategy
    \/ Render
    \/ Rerun

Spec == Init /\ [][Next]_vars

NextDelivery ==
    \/ ReadSecrets
    \/ StopOnMissingSecrets
    \/ InitSession
    \/ FetchData
    \/ AnalyzeStrategy
    \/ RenderDelivery
    \/ Rerun

SpecDelivery == Init /\ [][NextDelivery]_vars

\* line 122 when yf.download returns bars that all closed at one price
FetchConstant ==
    /\ pc = "fetch"
    /\ \E c \in 1..MaxPrice, n \in MinBars..(MinBars + MaxExtra) :
         df_raw' = Enrich(ConstantSeries(c, n))
    /\ pc' = "analyze"
    /\ UNCHANGED <<secrets, diag, in_session, last_alerts, idx, info,
                   has_trigger, outbox, before, evaluated, failed, prevTrig,
                   lastSent, undelivered, cycleStart, peer>>

NextConstant ==
    \/ ReadSecrets
    \/ StopOnMissingSecrets
    \/ InitSession
    \/ FetchConstant
    \/ AnalyzeStrategy
    \/ Render
    \/ Rerun

SpecConstant == Init /\ [][NextConstant]_vars

\* lines 121-123 with the symbols of the run taken in any order: one symbol
\* not yet evaluated in this run is fetched and analyzed
EvaluateInAnyOrder ==
    /\ pc = "fetch"
    /\ \E i \in 1..Len(symbols), resp \in Responses, netOK \in BOOLEAN :
         LET sym == symbols[i]
             f == fetch_data(resp)
             r == analyze_strategy(f.value, sym, last_alerts, netOK)
         IN  /\ \A j \in 1..Len(evaluated) : evaluated[j] # sym
             /\ idx' = i
             /\ df_raw' = f.value
             /\ cycleStart' = IF evaluated = <<>> THEN last_alerts ELSE cycleStart
             /\ before' = last_alerts
             /\ last_alerts' = r.alerts
             /\ info' = r.info
             /\ has_trigger' = r.has_trigger
             /\ outbox' = r.outbox
             /\ evaluated' = Append(evaluated, sym)
             /\ pc' = IF f.raised \/ r.raised THEN "crashed" ELSE "render"
    /\ UNCHANGED <<secrets, diag, in_session, failed, prevTrig, lastSent,
                   undelivered, peer>>

\* lines 124-133 in that loop: the run ends when every symbol was evaluated
EndIterationAnyOrder ==
    /\ pc = "render"
    /\ df_raw' = NoneObj
    /\ info' = NoneObj
    /\ has_trigger' = FALSE
    /\ outbox' = <<>>
    /\ before' = <<>>
    /\ pc' = IF Len(evaluated) < Len(symbols) THEN "fetch" ELSE "sleep"
    /\ cycleStart' = IF Len(evaluated) < Len(symbols) THEN cycleStart ELSE <<>>
    /\ UNCHANGED <<secrets, diag, in_session, last_alerts, idx, evaluated,
                   failed, prevTrig, lastSent, undelivered, peer>>

NextOrder ==
    \/ ReadSecrets
    \/ StopOnMissingSecrets
    \/ InitSession
    \/ EvaluateInAnyOrder
    \/ EndIterationAnyOrder
    \/ Rerun

SpecOrder == Init /\ [][NextOrder]_vars

(* Two browser sessions of one process.  Streamlit runs the script once per *)
(* session, each in its own thread, and st.session_state belongs to the    *)
(* session: lines 28-29 create one last_alerts dict per session.  The      *)
(* secrets and the Telegram chat are shared.  Each run step below is one   *)
(* pass of the loop body for one symbol; the display values are not kept.  *)

\* the responses that exercise the crossover messages alone: no data, or a
\* full frame whose last close sits on the middle band
CrossResponses ==
    {resp \in Responses :
        resp \in Frames =>
            /\ resp.len = MinBars
            /\ resp.last.Close = resp.last.BB_Mid
            /\ resp.last.std = 0}

\* lines 121-123 for the first session: fetch and analyze the next symbol
FetchAndAnalyze ==
    /\ pc = "fetch"
    /\ \E resp \in CrossResponses, netOK \in BOOLEAN :
         LET f == fetch_data(resp)
             r == analyze_strategy(f.value, symbols[idx], last_alerts, netOK)
         IN  /\ last_alerts' = r.alerts
             /\ outbox' = r.outbox
             /\ evaluated' = Append(evaluated, symbols[idx])
             /\ pc' = IF f.raised \/ r.raised THEN "crashed" ELSE "render"
    /\ UNCHANGED <<secrets, diag, in_session, idx, df_raw, info, has_trigger,
                   before, failed, prevTrig, lastSent, undelivered, cycleStart,
                   peer>>

\* lines 124-133 for the first session
RenderPlain == EndIteration /\ UNCHANGED <<prevTrig, undelivered>>

\* lines 28-29 in the second session, at the start of one of its runs
PeerInitSession ==
    /\ secrets
    /\ peer.idx = 0
    /\ peer' = [in_session |-> TRUE,
                last_alerts |-> IF ~peer.in_session THEN <<>> ELSE peer.last_alerts,
                idx |-> 1]
    /\ UNCHANGED <<pc, secrets, diag, in_session, last_alerts, idx, df_raw, info,
                   has_trigger, outbox, before, evaluated, failed, prevTrig,
                   lastSent, undelivered, cycleStart>>

\* lines 121-133 in the second session: one pass of the loop body, with its
\* own dict; after the last symbol the run sleeps and is started again
PeerIteration ==
    /\ secrets
    /\ peer.idx \in 1..Len(symbols)
    /\ \E resp \in CrossResponses, netOK \in BOOLEAN :
         LET sym == symbols[peer.idx]
             f == fetch_data(resp)
             r == analyze_strategy(f.value, sym, peer.last_alerts, netOK)
         IN  /\ peer' = [peer EXCEPT !.last_alerts = r.alerts,
                                     !.idx = IF peer.idx < Len(symbols)
                                             THEN peer.idx + 1 ELSE 0]
             /\ lastSent' = IF r.outbox # <<>>
                            THEN [lastSent EXCEPT ![sym] = r.outbox[1].text.msg]
                            ELSE lastSent
    /\ UNCHANGED <<pc, secrets, diag, in_session, last_alerts, idx, df_raw, info,
                   has_trigger, outbox, before, evaluated, failed, prevTrig,
                   undelivered, cycleStart>>

NextSessions ==
    \/ ReadSecrets
    \/ StopOnMissingSecrets
    \/ InitSession
    \/ FetchAndAnalyze
    \/ RenderPlain
    \/ Rerun
    \/ PeerInitSession
    \/ PeerIteration

SpecSessions == Init /\ [][NextSessions]_vars

(* The script run under the scheduling the process gives it: the script    *)
(* thread executes statement after statement, yf.download and              *)
(* requests.post return (timeout=5 at line 20), time.sleep(60) ends and    *)
(* st.rerun() starts the script again, so a step that can be taken is      *)
(* taken.                                                                  *)
\* line 122 with one of those responses
FetchCross ==
    /\ pc = "fetch"
    /\ \E resp \in CrossResponses :
         LET r == fetch_data(resp)
         IN  /\ df_raw' = r.value
             /\ failed' = IF r.value = NoneObj
                           THEN failed \cup {symbols[idx]} ELSE failed
             /\ pc' = IF r.raised THEN "crashed" ELSE "analyze"
    /\ UNCHANGED <<secrets, diag, in_session, last_alerts, idx, info,
                   has_trigger, outbox, before, evaluated, prevTrig, lastSent,
                   undelivered, cycleStart, peer>>

NextLive ==
    \/ ReadSecrets
    \/ StopOnMissingSecrets
    \/ InitSession
    \/ FetchCross
    \/ AnalyzeStrategy
    \/ RenderPlain
    \/ Rerun

SpecLive == Init /\ [][NextLive]_vars /\ WF_vars(NextLive)

----------------------------------------------------------------------------
(* Vocabulary of the properties.  In a state with pc = "render" the call   *)
(* analyze_strategy(df_raw, symbols[idx]) has just returned: df_raw is its *)
(* input, before the alert state it found, and info, has_trigger, outbox   *)
(* and last_alerts what it left.                                           *)

Returned == pc = "render"

Sym == symbols[idx]

\* the call was made on a frame of at least 35 bars
Classified == Returned /\ df_raw # NoneObj /\ df_raw.len >= MinBars

\* the alert key of symbol s and message m, as the program writes it
\* (line 89 joins the two with "_")
AlertKeyOf(s, m) == s \o "_" \o m

\* bullish and bearish EMA cross on the last two bars
BullishCross(df) ==
    df.prev.EMA_F <= df.prev.EMA_S /\ df.last.EMA_F > df.last.EMA_S

BearishCross(df) ==
    df.prev.EMA_F >= df.prev.EMA_S /\ df.last.EMA_F < df.last.EMA_S

\* close above the upper band, close below the lower band
AboveUpper(df) == df.last.Close > df.last.BB_Mid + 2 * df.last.std

BelowLower(df) == df.last.Close < df.last.BB_Mid - 2 * df.last.std

\* the message a breakout displays
BreakoutMsg(df) == IF AboveUpper(df) THEN MsgUpper ELSE MsgLower

----------------------------------------------------------------------------
(* C1: for every evaluate call on a series of at least 35 bars for symbol  *)
(* s, with alert_key the key of s and the final message: when triggered is *)
(* true and state[s] differed from alert_key at the time of the call,      *)
(* exactly one notification (for s, carrying the final message) is sent    *)
(* and state[s] becomes alert_key; in every other case no notification is  *)
(* sent and state[s] is left as it was.                                    *)
C1_NotifyIffNewKey ==
    (Classified /\ info # NoneObj) =>
        LET key == AlertKeyOf(Sym, info.msg)
        IN  IF has_trigger /\ Get(before, Sym) # key
            THEN /\ Len(outbox) = 1
                 /\ outbox[1].text.sym = Sym
                 /\ outbox[1].text.msg = info.msg
                 /\ Get(last_alerts, Sym) = key
            ELSE /\ outbox = <<>>
                 /\ Get(last_alerts, Sym) = Get(before, Sym)
                 /\ (Sym \in DOMAIN last_alerts) = (Sym \in DOMAIN before)

C1_Witness ==
    /\ Classified
    /\ has_trigger
    /\ Sym \notin DOMAIN before
    /\ Len(outbox) = 1
    /\ Get(last_alerts, Sym) = AlertKeyOf(Sym, info.msg)

(* C2: when two consecutive evaluations of the same symbol both trigger    *)
(* with the same final message, the second one finds state[symbol] equal   *)
(* to the alert key and sends nothing (so only the first can have sent),   *)
(* whatever the alert state was before the first.                          *)
C2_SecondIsSilent ==
    (Classified /\ info # NoneObj /\ has_trigger /\ prevTrig[Sym] = info.msg) =>
        /\ Get(before, Sym) = AlertKeyOf(Sym, info.msg)
        /\ outbox = <<>>
        /\ last_alerts = before

C2_Witness ==
    /\ Classified
    /\ has_trigger
    /\ prevTrig[Sym] = info.msg
    /\ outbox = <<>>

(* C3: when an evaluation triggers with a final message that differs from  *)
(* the message of the last alert emitted for the symbol, a notification is *)
(* sent again and state[symbol] is replaced by the new alert key.          *)
C3_NewMessageNotifiesAgain ==
    (Classified /\ info # NoneObj /\ has_trigger
        /\ lastSent[Sym] # None /\ lastSent[Sym] # info.msg) =>
        /\ Get(before, Sym) = AlertKeyOf(Sym, lastSent[Sym])
        /\ Len(outbox) = 1
        /\ outbox[1].text.msg = info.msg
        /\ Get(last_alerts, Sym) = AlertKeyOf(Sym, info.msg)

C3_Witness ==
    /\ Classified
    /\ has_trigger
    /\ lastSent[Sym] # None
    /\ lastSent[Sym] # info.msg
    /\ Len(outbox) = 1
    /\ Get(last_alerts, Sym) # Get(before, Sym)

(* C4: only the EMA crossover sets triggered: when the last two bars show  *)
(* neither a bullish nor a bearish cross, the call sends no notification   *)
(* and leaves the alert state as it was, whatever that state is, also when *)
(* close is above bb_upper or below bb_lower; the message is then the      *)
(* breakout message with level warning.                                    *)
C4_BreakoutAloneNeverNotifies ==
    (Classified /\ info # NoneObj
        /\ ~BullishCross(df_raw) /\ ~BearishCross(df_raw)) =>
        /\ ~has_trigger
        /\ outbox = <<>>
        /\ last_alerts = before
        /\ (AboveUpper(df_raw) \/ BelowLower(df_raw)) =>
               (info.msg = BreakoutMsg(df_raw) /\ info.alert_level = "warning")

C4_Witness ==
    /\ Classified
    /\ ~BullishCross(df_raw) /\ ~BearishCross(df_raw)
    /\ AboveUpper(df_raw)
    /\ info.msg = MsgUpper
    /\ DOMAIN before # {}
    /\ outbox = <<>>

(* C5: when an EMA crossover and a Bollinger breakout occur on the same    *)
(* last bar, message and level are those of the breakout (warning),        *)
(* triggered stays true, and the notification and the stored alert key     *)
(* carry the breakout message, not the crossover message.                  *)
C5_BreakoutOverridesCross ==
    (Classified /\ info # NoneObj
        /\ (BullishCross(df_raw) \/ BearishCross(df_raw))
        /\ (AboveUpper(df_raw) \/ BelowLower(df_raw))) =>
        /\ info.msg = BreakoutMsg(df_raw)
        /\ info.alert_level = "warning"
        /\ has_trigger
        /\ Get(last_alerts, Sym) = AlertKeyOf(Sym, BreakoutMsg(df_raw))
        /\ Len(outbox) = (IF Get(before, Sym) = AlertKeyOf(Sym, BreakoutMsg(df_raw))
                          THEN 0 ELSE 1)
        /\ \A i \in 1..Len(outbox) : outbox[i].text.msg = BreakoutMsg(df_raw)

C5_Witness ==
    /\ Classified
    /\ BullishCross(df_raw)
    /\ AboveUpper(df_raw)
    /\ Len(outbox) = 1
    /\ outbox[1].text.msg = MsgUpper
    /\ Get(last_alerts, Sym) = AlertKeyOf(Sym, MsgUpper)

(* C6: for an input that is absent or has fewer than 35 bars the call      *)
(* returns no result whatever the bars hold, sends no notification and     *)
(* leaves the alert state as it was; for 35 bars or more it returns a      *)
(* result.                                                                 *)
C6_ShortSeriesNoResult ==
    Returned =>
        IF df_raw = NoneObj \/ df_raw.len < 35
        THEN info = NoneObj /\ outbox = <<>> /\ last_alerts = before
        ELSE info # NoneObj /\ info.msg \in Messages

C6_Witness ==
    /\ Returned
    /\ df_raw # NoneObj
    /\ df_raw.len = 34
    /\ BullishCross(df_raw)
    /\ AboveUpper(df_raw)
    /\ DOMAIN last_alerts = {}
    /\ info = NoneObj


(* C7: delivery is fire-and-forget: when the request of a call whose       *)
(* trigger condition held fails, nothing is raised to the caller, the call *)
(* returns the result and leaves the alert state it would have with a      *)
(* successful request (state[symbol] is the alert key), and a later        *)
(* evaluation that triggers with the same message sends nothing: the       *)
(* failed notification is not retried.                                     *)
C7_FailedDeliveryIsSwallowed ==
    /\ pc # "crashed"
    /\ (Classified /\ outbox # <<>> /\ ~outbox[1].delivered) =>
          /\ info # NoneObj
          /\ info = analyze_strategy(df_raw, Sym, before, TRUE).info
          /\ last_alerts = analyze_strategy(df_raw, Sym, before, TRUE).alerts
          /\ Get(last_alerts, Sym) = AlertKeyOf(Sym, outbox[1].text.msg)
    /\ (Classified /\ info # NoneObj /\ has_trigger
          /\ Sym \in undelivered /\ lastSent[Sym] = info.msg) =>
          outbox = <<>>

C7_Witness ==
    /\ Classified
    /\ has_trigger
    /\ Sym \in undelivered
    /\ lastSent[Sym] = info.msg
    /\ outbox = <<>>

C9_FetchFailureIsPerSymbol ==
    /\ pc # "crashed"
    /\ (Returned /\ df_raw = NoneObj) =>
          (info = NoneObj /\ outbox = <<>> /\ last_alerts = before)
    /\ (pc = "sleep") => (evaluated = symbols)
    /\ (Classified /\ info # NoneObj /\ failed # {} /\ has_trigger
          /\ Get(before, Sym) # AlertKeyOf(Sym, info.msg)) =>
          /\ Len(outbox) = 1
          /\ Get(last_alerts, Sym) = AlertKeyOf(Sym, info.msg)

C9_Witness ==
    /\ Classified
    /\ failed # {}
    /\ Sym \notin failed
    /\ Len(outbox) = 1
    /\ Get(last_alerts, Sym) = AlertKeyOf(Sym, info.msg)

(* C10: with the notifier credentials missing, startup halts with a        *)
(* diagnostic, and no fetch, evaluation, notification or write of the      *)
(* alert state ever happens.                                               *)
C10_MissingSecretsHalt ==
    /\ (pc = "halted") => (diag /\ ~secrets)
    /\ (~secrets) =>
          /\ pc \in {"secrets", "halted"}
          /\ ~in_session
          /\ DOMAIN last_alerts = {}
          /\ df_raw = NoneObj
          /\ info = NoneObj
          /\ evaluated = <<>>
          /\ failed = {}
          /\ outbox = <<>>
          /\ lastSent = NoHistory

C10_Witness ==
    /\ pc = "halted"
    /\ diag
    /\ ~in_session

(* C11: the display-only fields are functions of the last bar alone,      *)
(* whatever message, level, trigger and alert state are: bb_pos is inside  *)
(* exactly when bb_lower < close < bb_upper (strict on both sides),        *)
(* macd_status is bullish exactly when macd_hist > 0, and trend is bullish *)
(* exactly when ema_fast > ema_slow (equality gives bearish).              *)
C11_DisplayFieldsFromLastBar ==
    (Classified /\ info # NoneObj) =>
        LET last == df_raw.last
            lower == last.BB_Mid - 2 * last.std
            upper == last.BB_Mid + 2 * last.std
        IN  /\ info.bb_pos = (IF lower < last.Close /\ last.Close < upper
                              THEN "inside" ELSE "outside")
            /\ info.macd_status = (IF last.MACD_Hist > 0
                                   THEN "bullish" ELSE "bearish")
            /\ info.trend = (IF last.EMA_F > last.EMA_S
                             THEN "bullish" ELSE "bearish")
            /\ info.price = last.Close

C11_Witness ==
    /\ Classified
    /\ df_raw.last.Close = df_raw.last.BB_Mid
    /\ df_raw.last.std = 0
    /\ df_raw.last.EMA_F = df_raw.last.EMA_S
    /\ info.bb_pos = "outside"
    /\ info.trend = "bearish"
    /\ info.msg = MsgStable

(* C12: on a series of at least 35 bars of constant price the EMAs and    *)
(* the 20-bar bands all equal the close (bb_upper = bb_lower = bb_mid =    *)
(* close, macd_hist = 0), so no crossover triggers: the message is trend   *)
(* stable, triggered is false and no notification is sent in any cycle.    *)
C12_ConstantPriceIsStable ==
    /\ Classified =>
          LET prev == df_raw.prev
              last == df_raw.last
          IN  /\ prev.EMA_F = last.Close /\ prev.EMA_S = last.Close
              /\ last.EMA_F = last.Close /\ last.EMA_S = last.Close
              /\ last.BB_Mid = last.Close /\ last.std = 0
              /\ BB_Upper(last) = last.Close /\ BB_Lower(last) = last.Close
              /\ last.MACD_Hist = 0
              /\ info # NoneObj
              /\ info.msg = MsgStable
              /\ info.alert_level = "success"
              /\ ~has_trigger
    /\ outbox = <<>>
    /\ DOMAIN last_alerts = {}

C12_Witness ==
    /\ Classified
    /\ df_raw.len > 35
    /\ df_raw.last.Close > 1
    /\ idx = Len(symbols)
    /\ info.msg = MsgStable
    /\ DOMAIN last_alerts = {}

\* the message of the last notification requested for s, the request of the
\* call that has just returned included
LastNotified(s) ==
    IF Returned /\ s = Sym /\ outbox # <<>> THEN outbox[1].text.msg ELSE lastSent[s]

(* C13: over any sequence of script runs the alert state is empty at the   *)
(* start and is not reset between runs; an entry is written only by an     *)
(* evaluation that also sends a notification for its symbol; an entry once *)
(* present is never removed; and the value stored for s is the alert key   *)
(* of s with a message that can accompany a trigger, never trend stable.   *)
(* Together: the alert state holds, for exactly the symbols notified so    *)
(* far, the key of the last notification.                                  *)
C13_AlertStateLifecycle ==
    /\ DOMAIN last_alerts = {s \in Symbol : LastNotified(s) # None}
    /\ \A s \in DOMAIN last_alerts :
          /\ last_alerts[s] = AlertKeyOf(s, LastNotified(s))
          /\ LastNotified(s) \in Messages \ {MsgStable}
    /\ Returned =>
          /\ \A s \in DOMAIN before : s \in DOMAIN last_alerts
          /\ \A s \in Symbol \ {Sym} : Get(last_alerts, s) = Get(before, s)
          /\ (last_alerts # before) => (Len(outbox) = 1 /\ outbox[1].text.sym = Sym)

C13_Witness ==
    /\ pc = "fetch"
    /\ idx = 1
    /\ evaluated = <<>>
    /\ DOMAIN last_alerts = Symbol
    /\ last_alerts[symbols[1]] = AlertKeyOf(symbols[1], MsgUpper)

\* the texts of a sequence of requests
Texts(requests) == [i \in 1..Len(requests) |-> requests[i].text]

\* the entry of s alone
Own(alerts, s) == [t \in (DOMAIN alerts) \cap {s} |-> alerts[t]]

(* C14: an evaluate call for s leaves state[t] as it was for every other   *)
(* symbol t; whether it notifies depends only on the series of s and on    *)
(* state[s]; and with the symbols of a run evaluated in any order, each    *)
(* evaluation sends what it would send, and leaves the entry it would      *)
(* leave, when made first in the run, so notifications and final alert     *)
(* state do not depend on the order.                                       *)
C14_NoCrossSymbolDependency ==
    Returned =>
        LET alone == analyze_strategy(df_raw, Sym, Own(before, Sym), TRUE)
            first == analyze_strategy(df_raw, Sym, cycleStart, TRUE)
        IN  /\ \A t \in Symbol \ {Sym} :
                  /\ Get(last_alerts, t) = Get(before, t)
                  /\ (t \in DOMAIN last_alerts) = (t \in DOMAIN before)
            /\ Texts(outbox) = Texts(alone.outbox)
            /\ Get(last_alerts, Sym) = Get(alone.alerts, Sym)
            /\ Texts(outbox) = Texts(first.outbox)
            /\ Get(last_alerts, Sym) = Get(first.alerts, Sym)

C14_Witness ==
    /\ Returned
    /\ Len(evaluated) = 2
    /\ Sym = symbols[1]
    /\ Len(outbox) = 1
    /\ cycleStart # before
    /\ DOMAIN cycleStart = Symbol

(* C15: the last-alert state is one mapping for the whole process, so of   *)
(* two evaluations of one symbol that produce the same triggering key,     *)
(* whichever pass of the process makes them, only the first notifies: no   *)
(* notification repeats the message the process notified last for that     *)
(* symbol.                                                                 *)
C15_OneNotificationPerKey ==
    (pc = "render" /\ outbox # <<>>) => outbox[1].text.msg # lastSent[symbols[idx]]

\* the symbols evaluated so far in this run are the first ones of the list,
\* each once, and the loop stands at the next one
InListOrder ==
    /\ Len(evaluated) <= Len(symbols)
    /\ evaluated = SubSeq(symbols, 1, Len(evaluated))
    /\ pc \in {"fetch", "analyze"} => Len(evaluated) = idx - 1
    /\ pc = "analyze" => failed \subseteq {symbols[i] : i \in 1..idx}
    /\ pc = "render" => Len(evaluated) = idx
    /\ pc = "sleep" => evaluated = symbols
    /\ pc \in {"secrets", "session", "halted"} => evaluated \in {<<>>, symbols}
    /\ Len(outbox) <= 1
    /\ outbox # <<>> => pc = "render" /\ outbox[1].text.sym = symbols[idx]

CycleStarted == pc = "fetch" /\ idx = 1 /\ evaluated = <<>>

CycleDone == pc = "sleep" /\ evaluated = symbols

(* C16: in each cycle the symbols are fetched and evaluated once each, in  *)
(* list order, with at most one notification per evaluation; the next      *)
(* cycle starts only after all of them were evaluated; and, every call     *)
(* returning, a cycle that started completes and another one follows:      *)
(* unless the run halted for missing secrets, cycles complete again and    *)
(* again and start again and again.                                        *)
C16_CyclesSequentialAndComplete ==
    /\ []InListOrder
    /\ []<>(CycleDone \/ pc = "halted")
    /\ []<>(CycleStarted \/ pc = "halted")

C16_Witness ==
    /\ CycleDone
    /\ failed = {symbols[1]}
    /\ symbols[2] \in DOMAIN last_alerts

(* C17: an evaluation without a trigger leaves the symbol's entry as it    *)
(* was, so a triggering result whose final message is the message of the   *)
(* last alert emitted for the symbol is suppressed however many            *)
(* non-triggering evaluations lie in between; a notification is sent only  *)
(* for a message other than the last one notified for the symbol.          *)
C17_SuppressionOutlivesQuietCycles ==
    Classified =>
        /\ ~has_trigger => (last_alerts = before /\ outbox = <<>>)
        /\ (has_trigger /\ info.msg = lastSent[Sym]) =>
               (outbox = <<>> /\ last_alerts = before)
        /\ outbox # <<>> =>
               /\ has_trigger
               /\ info.msg # lastSent[Sym]
               /\ outbox[1].text.msg = info.msg

C17_Witness ==
    /\ Classified
    /\ has_trigger
    /\ info.msg = lastSent[Sym]
    /\ prevTrig[Sym] = None
    /\ outbox = <<>>

(* C18: every result is consistent with itself: the bullish and the       *)
(* bearish cross are never both true of one pair of bars; a strong buy     *)
(* comes with macd_status bullish and trend bullish, a golden cross with   *)
(* trend bullish and macd_status bearish, a death cross with trend         *)
(* bearish, a breakout message with bb_pos outside; and the level of       *)
(* strong buy and death cross ("error", the spec's critical) comes with    *)
(* no other message.                                                       *)
C18_ResultIsConsistent ==
    Classified =>
        /\ ~(BullishCross(df_raw) /\ BearishCross(df_raw))
        /\ info.msg = MsgStrongBuy =>
               (info.macd_status = "bullish" /\ info.trend = "bullish")
        /\ info.msg = MsgGolden =>
               (info.trend = "bullish" /\ info.macd_status = "bearish")
        /\ info.msg = MsgDeath => info.trend = "bearish"
        /\ info.msg \in {MsgUpper, MsgLower} => info.bb_pos = "outside"
        /\ info.alert_level = "error" => info.msg \in {MsgStrongBuy, MsgDeath}
        /\ info.alert_level \in {"success", "warning", "error"}

C18_Witness ==
    /\ Classified
    /\ BearishCross(df_raw)
    /\ info.msg = MsgUpper
    /\ info.alert_level = "warning"
    /\ info.bb_pos = "outside"
    /\ info.trend = "bearish"

====
